---- MODULE Spec2Model ----
(***************************************************************************)
(* Model of the access-control handlers of family-calendar:                *)
(*   - the IP allowlist item kept in the configurations table,             *)
(*   - the CloudFormation custom-resource handler that writes it,          *)
(*   - the placeholder authentication handler,                             *)
(*   - the dual-validation authentication handler (IP + Cognito token).    *)
(* Source: src/src/constructs/handler/ip-allowlist-manager.ts              *)
(*                                                                         *)
(* Text (request body, Authorization header, error messages, audit         *)
(* reasons) is a sequence of chunks; a bearer token is one chunk.          *)
(* One invocation of the authentication Lambda is in flight at a time:     *)
(* invocations share nothing but the table, which they only read.          *)
(***************************************************************************)
EXTENDS Integers, Sequences, FiniteSets, TLC

VARIABLES
  table,     \* the SYSTEM_CONFIG item of the configurations table
  now,       \* the wall clock read by new Date()
  cfn,       \* the last response of the custom-resource handler
  ev,        \* the authentication invocation in flight (or finished)
  sinkFaulty, \* whether console.log, the audit sink, may throw
  lastPut,   \* the item of the last PutCommand the table accepted
  admin,     \* the last request to the /auth/ip-allowlist endpoints
  upd,       \* the calls of _addIpToAllowlist / _removeIpFromAllowlist
  waf        \* the Web ACL of the last deployment

vars == <<table, now, cfn, ev, sinkFaulty, lastPut, admin, upd, waf>>

-----------------------------------------------------------------------------
(* Bounds *)

MaxTime == 1     \* the clock stops ticking here
MaxIPs == 1      \* longest allowedIPs list a provisioning event carries

-----------------------------------------------------------------------------
(* Values *)

Absent == "absent"                     \* undefined / property not present
Addrs == {"ip1", "ip2"}                \* network addresses
TokA == "tokA"
TokB == "tokB"
Tokens == {TokA, TokB}

Malformed == "not-an-address"          \* a string that is no address

\* Lists of addresses
Lists == UNION {[1..n -> Addrs] : n \in 0..MaxIPs}

\* allowedIPs is a string[]: nothing restricts its entries to addresses
AnyLists == UNION {[1..n -> Addrs \cup {Malformed}] : n \in 0..MaxIPs}

Elems(s) == {s[i] : i \in 1..Len(s)}

\* Array.prototype.includes
Includes(s, x) == \E i \in 1..Len(s) : s[i] = x

Max(a, b) == IF a > b THEN a ELSE b
Min(a, b) == IF a < b THEN a ELSE b

NoItem == [present |-> FALSE, allowedIPs |-> <<>>, updatedAt |-> 0]

-----------------------------------------------------------------------------
(* Allowlist store *)

\* updateIpAllowlist adding the new entries to the stored ones
updateIpAllowlistMerging(allowedIPs, time) ==
  [present |-> TRUE, allowedIPs |-> table.allowedIPs \o allowedIPs,
   updatedAt |-> time]

\* updateIpAllowlist: one PutCommand carrying the whole item
updateIpAllowlist(allowedIPs, time) ==
  [present |-> TRUE, allowedIPs |-> allowedIPs, updatedAt |-> time]

NoCfn ==
  [Status |-> "none", Reason |-> Absent, AllowedIPCount |-> 0,
   PhysicalResourceId |-> Absent, StackId |-> Absent, RequestId |-> Absent,
   LogicalResourceId |-> Absent]

\* event.RequestId values; StackId and LogicalResourceId are those of the
\* one custom resource of the one stack
RequestIds == {"req-1", "req-2", "req-3"}

EventIds(requestId) ==
  [StackId |-> "stack", RequestId |-> requestId,
   LogicalResourceId |-> "IpAllowlistResource"]

\* The ids of an event that has none
NoEventIds ==
  [StackId |-> Absent, RequestId |-> Absent, LogicalResourceId |-> Absent]

\* The response object of the handler: SUCCESS with Data.AllowedIPCount,
\* or FAILED with Reason; both echo the ids of the event
HandlerResponse(status, reason, count, ids) ==
  [Status |-> status, Reason |-> reason, AllowedIPCount |-> count,
   PhysicalResourceId |-> "IpAllowlistConfig", StackId |-> ids.StackId,
   RequestId |-> ids.RequestId, LogicalResourceId |-> ids.LogicalResourceId]

\* The error a rejected PutCommand throws
PutError == [isError |-> TRUE, message |-> "put failed"]

\* error instanceof Error ? error.message : 'Unknown error'
ReasonOf(error) == IF error.isError THEN error.message ELSE "Unknown error"

\* (event.ResourceProperties.allowedIPs as string[]) || []
PropsAllowedIPs(props) == IF props.has THEN props.allowedIPs ELSE <<>>

\* event.ResourceProperties with and without the allowedIPs property
Properties ==
  {[has |-> TRUE, allowedIPs |-> l] : l \in Lists}
    \cup {[has |-> FALSE, allowedIPs |-> <<>>]}

\* The same with lists of any strings
AnyProperties ==
  {[has |-> TRUE, allowedIPs |-> l] : l \in AnyLists}
    \cup {[has |-> FALSE, allowedIPs |-> <<>>]}

\* handler (custom resource) removing the item on Delete
CustomResourceDeleting(requestType, props, putOk, requestId) ==
  LET allowedIPs == PropsAllowedIPs(props)
      writes == requestType \in {"Create", "Update"}
  IN /\ table' = IF writes /\ putOk
                   THEN updateIpAllowlist(allowedIPs, now)
                   ELSE IF requestType = "Delete" THEN NoItem
                   ELSE table
     /\ cfn' = IF writes /\ ~putOk
                 THEN HandlerResponse("FAILED", ReasonOf(PutError), 0,
                                      EventIds(requestId))
                 ELSE HandlerResponse("SUCCESS", Absent, Len(allowedIPs),
                                      EventIds(requestId))
     /\ UNCHANGED <<now, ev, sinkFaulty, admin, upd, waf>>
     /\ lastPut' = IF writes /\ putOk
                     THEN [present |-> TRUE, allowedIPs |-> allowedIPs,
                           updatedAt |-> now]
                     ELSE lastPut

\* handler (custom resource) answering SUCCESS whatever the Put did
CustomResourceSwallowing(requestType, props, putOk, requestId) ==
  LET allowedIPs == PropsAllowedIPs(props)
      writes == requestType \in {"Create", "Update"}
  IN /\ table' = IF writes /\ putOk
                   THEN updateIpAllowlist(allowedIPs, now)
                   ELSE table
     /\ cfn' = HandlerResponse("SUCCESS", Absent, Len(allowedIPs),
                               EventIds(requestId))
     /\ UNCHANGED <<now, ev, sinkFaulty, admin, upd, waf>>
     /\ lastPut' = IF writes /\ putOk
                     THEN [present |-> TRUE, allowedIPs |-> allowedIPs,
                           updatedAt |-> now]
                     ELSE lastPut

\* handler (custom resource): Create/Update write the list, Delete writes
\* nothing; a failed Put is caught and reported as FAILED.
CustomResource(requestType, props, putOk, requestId) ==
  LET allowedIPs == PropsAllowedIPs(props)
      writes == requestType \in {"Create", "Update"}
  IN /\ table' = IF writes /\ putOk
                   THEN updateIpAllowlist(allowedIPs, now)
                   ELSE table
     /\ cfn' = IF writes /\ ~putOk
                 THEN HandlerResponse("FAILED", ReasonOf(PutError), 0,
                                      EventIds(requestId))
                 ELSE HandlerResponse("SUCCESS", Absent, Len(allowedIPs),
                                      EventIds(requestId))
     /\ UNCHANGED <<now, ev, sinkFaulty, admin, upd, waf>>
     /\ lastPut' = IF writes /\ putOk
                     THEN [present |-> TRUE, allowedIPs |-> allowedIPs,
                           updatedAt |-> now]
                     ELSE lastPut

Tick ==
  /\ now < MaxTime
  /\ now' = now + 1
  /\ UNCHANGED <<table, cfn, ev, sinkFaulty, lastPut, admin, upd, waf>>

-----------------------------------------------------------------------------
(* Request text *)

LBrace == "{"
RBrace == "}"
Quote == "\""
Key == "\"accessToken\":"
Bearer == "Bearer "

\* event.body values: absent, well-formed with and without a token, the
\* literal null, a token value left unquoted, and text after the value.
\* Requests carry the first four.
BodyNone == <<>>
BodyEmptyObject == <<LBrace, RBrace>>
BodyWithToken(t) == <<LBrace, Key, Quote, t, Quote, RBrace>>
BodyNull == <<"null">>
BodyUnquoted(t) == <<LBrace, Key, t, RBrace>>
BodyTrailing == <<LBrace, RBrace, RBrace>>

Bodies == {BodyNone, BodyWithToken(TokA), BodyNull, BodyUnquoted(TokA)}

\* event.headers.Authorization values
HeaderNone == <<>>
Headers == {HeaderNone, <<Bearer>>, <<Bearer, TokB>>}

\* The index of the first chunk JSON.parse cannot accept, 0 when the text
\* is well formed. Grammar: null | { } | { "accessToken": " token " }.
JSONErrorPos(t) ==
  IF Len(t) = 0 THEN 1
  ELSE IF t[1] = "null" THEN (IF Len(t) = 1 THEN 0 ELSE 2)
  ELSE IF t[1] # LBrace THEN 1
  ELSE IF Len(t) = 1 THEN 2
  ELSE IF t[2] = RBrace THEN (IF Len(t) = 2 THEN 0 ELSE 3)
  ELSE IF t[2] # Key THEN 2
  ELSE IF Len(t) < 3 \/ t[3] # Quote THEN 3
  ELSE IF Len(t) < 5 \/ t[5] # Quote THEN 5
  ELSE IF Len(t) < 6 \/ t[6] # RBrace THEN 6
  ELSE IF Len(t) > 6 THEN 7
  ELSE 0

\* The message of the SyntaxError JSON.parse throws (V8 of Node 20): an
\* unexpected token is reported with the source text around it, text after
\* the value and an unexpected end by position alone.
JSONErrorMessage(t) ==
  LET pos == JSONErrorPos(t)
  IN IF pos > Len(t)
       THEN <<"Unexpected end of JSON input">>
     ELSE IF pos > 1 /\ JSONErrorPos(SubSeq(t, 1, pos - 1)) = 0
       THEN <<"Unexpected non-whitespace character after JSON at position">>
     ELSE <<"Unexpected token">>
          \o SubSeq(t, Max(1, pos - 1), Min(Len(t), pos + 1))
          \o <<"is not valid JSON">>

\* JSON.parse: the value, or the error it throws
JSONparse(t) ==
  IF JSONErrorPos(t) # 0
    THEN [ok |-> FALSE, isNull |-> FALSE, accessToken |-> Absent,
          message |-> JSONErrorMessage(t)]
  ELSE IF t = BodyNull
    THEN [ok |-> TRUE, isNull |-> TRUE, accessToken |-> Absent,
          message |-> <<>>]
  ELSE [ok |-> TRUE, isNull |-> FALSE,
        accessToken |-> IF Len(t) = 6 THEN t[4] ELSE Absent,
        message |-> <<>>]

\* event.body ? JSON.parse(event.body) : {}
ParseBody(body) ==
  IF body = BodyNone
    THEN [ok |-> TRUE, isNull |-> FALSE, accessToken |-> Absent,
          message |-> <<>>]
    ELSE JSONparse(body)

\* String.prototype.replace('Bearer ', ''): drops the first occurrence
RemoveFirst(s, x) ==
  IF ~Includes(s, x) THEN s
  ELSE LET i == CHOOSE k \in 1..Len(s) :
                  s[k] = x /\ \A j \in 1..(k - 1) : s[j] # x
       IN SubSeq(s, 1, i - 1) \o SubSeq(s, i + 1, Len(s))

\* event.headers?.Authorization?.replace('Bearer ', ''); the empty string
\* left of a header that is 'Bearer ' alone is falsy like undefined
HeaderToken(header) ==
  LET rest == RemoveFirst(header, Bearer)
  IN IF header = HeaderNone \/ rest = <<>> THEN Absent ELSE rest[1]

\* body.accessToken || event.headers?.Authorization?.replace('Bearer ', '')
ExtractToken(parsed, header) ==
  IF parsed.accessToken # Absent THEN parsed.accessToken
  ELSE HeaderToken(header)

\* Whether a text carries a bearer token
Carries(text, tok) == Includes(text, tok)

-----------------------------------------------------------------------------
(* Authentication handlers *)

NoUser == [userId |-> Absent, username |-> Absent]
CognitoUser == [userId |-> "sub-1", username |-> "alice"]

\* What the identity provider may answer to GetUser
ProviderResponses == {"accept", "NotAuthorized", "InvalidParameter", "Unavailable"}

NoResponse ==
  [statusCode |-> 0, authorized |-> FALSE, reason |-> Absent,
   userId |-> Absent, username |-> Absent]

Response(statusCode, authorized, reason, user) ==
  [statusCode |-> statusCode, authorized |-> authorized, reason |-> reason,
   userId |-> user.userId, username |-> user.username]

AuditLog(timestamp, ipAddress, user, authMethod, result, reason) ==
  [timestamp |-> timestamp, ipAddress |-> ipAddress,
   userId |-> user.userId, username |-> user.username,
   authMethod |-> authMethod, result |-> result, reason |-> reason]

\* logSecurityAudit losing the line
logSecurityAuditDropped(log, auditLog) == log

\* logSecurityAudit: one console.log line per call
logSecurityAudit(log, auditLog) == Append(log, auditLog)

NoSeen ==
  [error |-> FALSE, present |-> FALSE, empty |-> FALSE, listed |-> FALSE]

\* What a GetCommand observes: the item as stored at that moment, or an error
StoreRead(ok, ipAddress) ==
  IF ~ok THEN [NoSeen EXCEPT !.error = TRUE]
  ELSE [error |-> FALSE, present |-> table.present,
        empty |-> table.present /\ table.allowedIPs = <<>>,
        listed |-> table.present /\ ipAddress \in Elems(table.allowedIPs)]

\* validateIpAddress answering true when no item is stored (fail-open)
validateIpAddressFailOpen(ok, item, ipAddress) ==
  IF ~ok THEN FALSE
  ELSE IF ~item.present THEN TRUE
  ELSE Includes(item.allowedIPs, ipAddress)

\* validateIpAddress answering from the list as it was when the request
\* arrived
validateIpAddressAtArrival(ok, item, ipAddress) ==
  IF ~ok THEN FALSE ELSE ev.listedOnArrival

\* validateIpAddress: false on a store error, on a missing item, and when
\* allowedIPs does not include the address
validateIpAddress(ok, item, ipAddress) ==
  IF ~ok THEN FALSE
  ELSE IF ~item.present THEN FALSE
  ELSE Includes(item.allowedIPs, ipAddress)

\* validateCognitoToken treating a provider outage as a valid token
validateCognitoTokenFailOpen(providerResp) ==
  IF providerResp \in {"accept", "Unavailable"}
    THEN [valid |-> TRUE, user |-> CognitoUser]
    ELSE [valid |-> FALSE, user |-> NoUser]

\* validateCognitoToken: valid with the user's identity when GetUser
\* answers, {valid: false} whatever it throws
validateCognitoToken(providerResp) ==
  IF providerResp = "accept"
    THEN [valid |-> TRUE, user |-> CognitoUser]
    ELSE [valid |-> FALSE, user |-> NoUser]

\* event.requestContext.identity.sourceIp || 'unknown'
SourceIp(reqIp) == IF reqIp = "" THEN "unknown" ELSE reqIp

\* The error the try block throws before Step 1, <<>> when it throws none:
\* the SyntaxError of JSON.parse, or the TypeError of reading accessToken
\* of null.
BodyError(body) ==
  LET parsed == ParseBody(body)
  IN IF ~parsed.ok THEN parsed.message
     ELSE IF parsed.isNull
       THEN <<"Cannot read properties of null (reading 'accessToken')">>
     ELSE <<>>

\* The handler looking at the token before the IP result
AfterIpCheckTokenFirst(ipValid, accessToken) ==
  IF accessToken # Absent THEN "verify"
  ELSE IF ~ipValid THEN "ipDenied"
  ELSE "noToken"

\* The handler sending every request of a listed origin to the verifier
AfterIpCheckNoTokenCheck(ipValid, accessToken) ==
  IF ~ipValid THEN "ipDenied" ELSE "verify"

\* The branch taken once validateIpAddress has answered
AfterIpCheck(ipValid, accessToken) ==
  IF ~ipValid THEN "ipDenied"
  ELSE IF accessToken = Absent THEN "noToken"
  ELSE "verify"

\* The handler looking the address up again once the token is verified
AfterTokenCheckRecheck(valid) ==
  IF ~valid THEN "tokenInvalid"
  ELSE IF table.present /\ Includes(table.allowedIPs, ev.sourceIp)
    THEN "success"
  ELSE "ipDenied"

\* The branch taken once validateCognitoToken has answered
AfterTokenCheck(valid) == IF ~valid THEN "tokenInvalid" ELSE "success"

\* The audit records with a success line that names no user
AuditOfSuccessUnnamed(branch, e, user, message) ==
  IF branch = "success"
    THEN AuditLog(e.timestamp, e.sourceIp, NoUser, "cognito", "success", <<>>)
    ELSE AuditLog(e.timestamp, e.sourceIp, NoUser, "system", "failure", message)

\* The audit record of each branch
AuditOf(branch, e, user, message) ==
  CASE branch = "ipDenied" ->
         AuditLog(e.timestamp, e.sourceIp, NoUser, "ip-restriction",
                  "failure", <<"IP address not in allowlist">>)
    [] branch = "noToken" ->
         AuditLog(e.timestamp, e.sourceIp, NoUser, "cognito",
                  "failure", <<"No access token provided">>)
    [] branch = "tokenInvalid" ->
         AuditLog(e.timestamp, e.sourceIp, NoUser, "cognito",
                  "failure", <<"Invalid access token">>)
    [] branch = "success" ->
         AuditLog(e.timestamp, e.sourceIp, user, "dual-validation",
                  "success", <<>>)
    [] branch = "error" ->
         AuditLog(e.timestamp, e.sourceIp, NoUser, "system",
                  "failure", message)

\* The responses with the origin denial answered 401
ResponseOfDeniedAsUnauthorized(branch, user) ==
  IF branch = "success" THEN Response(200, TRUE, Absent, user)
  ELSE IF branch = "error"
    THEN Response(500, FALSE, "Internal server error", NoUser)
  ELSE IF branch = "ipDenied" THEN Response(401, FALSE, "Access denied", NoUser)
  ELSE IF branch = "noToken"
    THEN Response(401, FALSE, "Authentication required", NoUser)
  ELSE Response(401, FALSE, "Invalid credentials", NoUser)

\* The response of each branch
ResponseOf(branch, user) ==
  CASE branch = "ipDenied" -> Response(403, FALSE, "Access denied", NoUser)
    [] branch = "noToken" -> Response(401, FALSE, "Authentication required", NoUser)
    [] branch = "tokenInvalid" -> Response(401, FALSE, "Invalid credentials", NoUser)
    [] branch = "success" -> Response(200, TRUE, Absent, user)
    [] branch = "error" -> Response(500, FALSE, "Internal server error", NoUser)

\* What console.log does to the calls of logSecurityAudit in one
\* invocation: writes every line, throws on the first call only, or throws
\* on every call
SinkOutcomes == IF sinkFaulty THEN {"ok", "throwsOnce", "throws"} ELSE {"ok"}

SinkErrorMessage == <<"write EPIPE">>

\* A branch's end that sends an invalid token to the provider once more
FinishRetrying(e, branch, user, message, sink) ==
  IF branch = "tokenInvalid"
       /\ Cardinality({i \in 1..Len(e.trace) : e.trace[i] = "verify"}) < 2
    THEN [e EXCEPT !.pc = "awaitCognito",
                   !.audits = logSecurityAudit(@, AuditOf(branch, e, user, message)),
                   !.trace = @ \o <<"audit", "verify">>]
    ELSE [e EXCEPT !.pc = "done",
                   !.decided = branch,
                   !.branch = branch,
                   !.audits = logSecurityAudit(@, AuditOf(branch, e, user, message)),
                   !.trace = @ \o <<"audit", "return">>,
                   !.response = ResponseOf(branch, user)]

\* A branch's end: log the audit record, then return the response. No call
\* of logSecurityAudit is guarded: one that throws inside the try block
\* lands in the catch block, which logs the system record and returns 500;
\* one that throws inside the catch block rejects the handler's promise.
Finish(e, branch, user, message, sink) ==
  IF sink = "ok"
    THEN [e EXCEPT !.pc = "done",
                   !.decided = branch,
                   !.branch = branch,
                   !.audits = logSecurityAudit(@, AuditOf(branch, e, user, message)),
                   !.trace = @ \o <<"audit", "return">>,
                   !.response = ResponseOf(branch, user)]
  ELSE IF sink = "throwsOnce" /\ branch # "error"
    THEN [e EXCEPT !.pc = "done",
                   !.decided = branch,
                   !.branch = "error",
                   !.audits = logSecurityAudit(@,
                                AuditOf("error", e, NoUser, SinkErrorMessage)),
                   !.trace = @ \o <<"auditFailed", "audit", "return">>,
                   !.response = ResponseOf("error", NoUser)]
  ELSE [e EXCEPT !.pc = "threw",
                 !.decided = branch,
                 !.branch = "error",
                 !.trace = @ \o (IF branch = "error"
                                   THEN <<"auditFailed">>
                                   ELSE <<"auditFailed", "auditFailed">>)]

Idle ==
  [handler |-> "none", pc |-> "idle", reqIp |-> "", body |-> BodyNone,
   header |-> HeaderNone, sourceIp |-> "", timestamp |-> 0,
   listedOnArrival |-> FALSE,
   accessToken |-> Absent, seen |-> NoSeen, ipValid |-> FALSE,
   providerResp |-> "none", decided |-> "none", branch |-> "none",
   trace |-> <<>>,
   audits |-> <<>>, response |-> NoResponse]

\* The positions at which no invocation is running: none started yet, the
\* handler returned, the Lambda service stopped it at its timeout, or the
\* handler threw
Ended == {"idle", "done", "timedOut", "threw"}

\* handler (authentication, placeholder): reads sourceIp for a log line and
\* nothing else of the event; no check, no audit record, authorized: true
PlaceholderAuth(reqIp) ==
  /\ ev.pc \in Ended
  /\ ev' = [Idle EXCEPT !.handler = "placeholder", !.pc = "done",
                        !.reqIp = reqIp, !.sourceIp = reqIp,
                        !.decided = "placeholder", !.branch = "placeholder",
                        !.trace = <<"return">>,
                        !.response = Response(200, TRUE, Absent, NoUser)]
  /\ UNCHANGED <<table, now, cfn, sinkFaulty, lastPut, admin, upd, waf>>

\* The fields of ev: the event (reqIp, body, header), the handler's locals
\* (sourceIp, timestamp, accessToken, ipValid), what its calls observed
\* (seen: the item as the GetCommand read it; providerResp: the answer to
\* GetUser; listedOnArrival: whether the table listed the address when the
\* request arrived), the order of its calls (trace), the audit lines it
\* logged and the response it returned.

\* handler (authentication, dual validation) up to its first await: read
\* sourceIp and the clock, parse the body, take the token, send the
\* GetCommand; an error thrown by the parse goes to the catch block.
AuthBegin(reqIp, body, header, sink) ==
  /\ ev.pc \in Ended
  /\ LET e == [Idle EXCEPT !.handler = "dual", !.reqIp = reqIp,
                           !.body = body, !.header = header,
                           !.sourceIp = SourceIp(reqIp), !.timestamp = now,
                           !.listedOnArrival =
                              table.present
                                /\ SourceIp(reqIp) \in Elems(table.allowedIPs)]
         err == BodyError(body)
     IN ev' = IF err # <<>>
                THEN Finish(e, "error", NoUser, err, sink)
                ELSE [e EXCEPT !.pc = "awaitStore",
                               !.accessToken =
                                  ExtractToken(ParseBody(body), header)]
  /\ UNCHANGED <<table, now, cfn, sinkFaulty, lastPut, admin, upd, waf>>

\* The GetCommand is answered: Step 1 decides, then either a denial is
\* audited and returned or the GetUserCommand is sent.
AuthStoreResponse(ok, sink) ==
  /\ ev.pc = "awaitStore"
  /\ LET ipValid == validateIpAddress(ok, table, ev.sourceIp)
         e == [ev EXCEPT !.seen = StoreRead(ok, ev.sourceIp),
                         !.ipValid = ipValid,
                         !.trace = Append(@, "storeRead")]
         branch == AfterIpCheck(ipValid, ev.accessToken)
     IN ev' = IF branch = "verify"
                THEN [e EXCEPT !.pc = "awaitCognito",
                               !.trace = Append(@, "verify")]
                ELSE Finish(e, branch, NoUser, <<>>, sink)
  /\ UNCHANGED <<table, now, cfn, sinkFaulty, lastPut, admin, upd, waf>>

\* GetUser is answered (or throws): Step 2 decides, audits and returns.
AuthCognitoResponse(providerResp, sink) ==
  /\ ev.pc = "awaitCognito"
  /\ LET v == validateCognitoToken(providerResp)
         e == [ev EXCEPT !.providerResp = providerResp]
     IN ev' = Finish(e, AfterTokenCheck(v.valid), v.user, <<>>, sink)
  /\ UNCHANGED <<table, now, cfn, sinkFaulty, lastPut, admin, upd, waf>>

\* The handler sets no timeout on its awaits (the SDK clients are built
\* with {}), so a call that is never answered is ended only by the Lambda
\* service at the function's timeout of 30 seconds: the invocation is
\* stopped where it waits, nothing more of the handler runs.
LambdaTimeout ==
  /\ ev.pc \in {"awaitStore", "awaitCognito"}
  /\ ev' = [ev EXCEPT !.pc = "timedOut", !.branch = "timeout"]
  /\ UNCHANGED <<table, now, cfn, sinkFaulty, lastPut, admin, upd, waf>>

-----------------------------------------------------------------------------
(* Management endpoints *)

\* GET and POST /auth/ip-allowlist are integrated with the custom-resource
\* handler behind the Cognito authorizer. The handler receives the API
\* Gateway proxy event, which has a body but neither RequestType nor
\* ResourceProperties.

NoAdmin ==
  [method |-> "none", originListed |-> FALSE, credOk |-> FALSE,
   invoked |-> FALSE, statusCode |-> 0, body |-> <<>>,
   changed |-> FALSE, replaced |-> FALSE]

\* The proxy event read as an Update carrying the posted list
ApiGatewayEventAsUpdate(method, list) ==
  [RequestType |-> IF method = "POST" THEN "Update" ELSE "Delete",
   hasProperties |-> TRUE,
   props |-> [has |-> TRUE, allowedIPs |-> list]]

\* The proxy event as the handler reads it: event.RequestType and
\* event.ResourceProperties are undefined, whatever the body carries
ApiGatewayEvent(method, list) ==
  [RequestType |-> Absent,
   hasProperties |-> FALSE,
   props |-> [has |-> FALSE, allowedIPs |-> <<>>]]

\* What API Gateway sends the caller for a proxy integration's result: the
\* result's statusCode and body, or 502 when it has no statusCode
ApiGatewayResponse(result) ==
  IF "statusCode" \in DOMAIN result
    THEN [statusCode |-> result.statusCode, body |-> result.body]
    ELSE [statusCode |-> 502, body |-> <<"Internal server error">>]

\* One request to /auth/ip-allowlist. Without a valid credential the
\* authorizer answers 401 and the handler does not run. With one, the
\* handler runs on the proxy event: reading allowedIPs of the undefined
\* ResourceProperties throws inside the try block, the catch block returns
\* the FAILED result, and API Gateway answers 502.
AdminRequest(method, reqIp, credOk, list, putOk) ==
  LET event == ApiGatewayEvent(method, list)
      threw == ~event.hasProperties
      allowedIPs == PropsAllowedIPs(event.props)
      writes == credOk /\ ~threw /\ event.RequestType \in {"Create", "Update"}
      result ==
        IF threw
          THEN HandlerResponse("FAILED",
                               ReasonOf([isError |-> TRUE,
                                         message |-> "Cannot read properties of undefined"]),
                               0, NoEventIds)
        ELSE IF writes /\ ~putOk
          THEN HandlerResponse("FAILED", ReasonOf(PutError), 0, NoEventIds)
        ELSE HandlerResponse("SUCCESS", Absent, Len(allowedIPs), NoEventIds)
      sent == IF credOk THEN ApiGatewayResponse(result)
              ELSE [statusCode |-> 401, body |-> <<"Unauthorized">>]
  IN /\ table' = IF writes /\ putOk
                   THEN updateIpAllowlist(allowedIPs, now)
                   ELSE table
     /\ lastPut' = IF writes /\ putOk
                     THEN [present |-> TRUE, allowedIPs |-> allowedIPs,
                           updatedAt |-> now]
                     ELSE lastPut
     /\ cfn' = IF credOk THEN result ELSE cfn
     /\ admin' = [method |-> method,
                  originListed |->
                     table.present /\ reqIp \in Elems(table.allowedIPs),
                  credOk |-> credOk,
                  invoked |-> credOk,
                  statusCode |-> sent.statusCode,
                  body |-> sent.body,
                  changed |-> table' # table,
                  replaced |-> table'.present /\ table'.allowedIPs = list]
     /\ UNCHANGED <<now, ev, sinkFaulty, upd, waf>>

-----------------------------------------------------------------------------
(* Runtime updates of the allowlist *)

Callers == {1, 2}

NoCall ==
  [op |-> "none", ip |-> "", pc |-> "idle", currentIPs |-> <<>>,
   item |-> NoItem, wrote |-> FALSE]

NoCalls == [c \in Callers |-> NoCall]

\* getIpAllowlist: response.Item?.allowedIPs || []
getIpAllowlist(item) == IF item.present THEN item.allowedIPs ELSE <<>>

\* currentIPs.push(ipAddress)
addIp(currentIPs, ipAddress) == Append(currentIPs, ipAddress)

\* The list of _removeIpFromAllowlist dropping one occurrence only
removeIpFirst(currentIPs, ipAddress) == RemoveFirst(currentIPs, ipAddress)

\* currentIPs.filter((ip) => ip !== ipAddress)
removeIp(currentIPs, ipAddress) ==
  SelectSeq(currentIPs, LAMBDA x : x # ipAddress)

\* A call that goes on to updateIpAllowlist whatever it read
NeedsWriteAlways(op, currentIPs, ipAddress) == TRUE

\* Whether the call goes on to updateIpAllowlist: _addIpToAllowlist when
\* the address was not included, _removeIpFromAllowlist when the filter
\* made the list shorter
NeedsWrite(op, currentIPs, ipAddress) ==
  IF op = "add" THEN ~Includes(currentIPs, ipAddress)
  ELSE Len(removeIp(currentIPs, ipAddress)) # Len(currentIPs)

\* The positions at which a caller runs no call
CallEnded == {"idle", "done", "threw"}

\* _addIpToAllowlist / _removeIpFromAllowlist up to the first await: the
\* GetCommand of getIpAllowlist is sent
CallBegin(c, op, ipAddress) ==
  /\ upd[c].pc \in CallEnded
  /\ upd' = [upd EXCEPT ![c] = [NoCall EXCEPT !.op = op, !.ip = ipAddress,
                                               !.pc = "get"]]
  /\ UNCHANGED <<table, now, cfn, ev, sinkFaulty, lastPut, admin, waf>>

\* The GetCommand is answered: the call computes its list and either
\* returns without a write or builds the item (updatedAt read from the
\* clock now) and sends the PutCommand; an error of the Get is thrown on.
CallGetAnswered(c, ok) ==
  /\ upd[c].pc = "get"
  /\ LET currentIPs == getIpAllowlist(table)
         newIPs == IF upd[c].op = "add"
                     THEN addIp(currentIPs, upd[c].ip)
                     ELSE removeIp(currentIPs, upd[c].ip)
     IN upd' = [upd EXCEPT ![c] =
                  IF ~ok THEN [@ EXCEPT !.pc = "threw"]
                  ELSE IF NeedsWrite(upd[c].op, currentIPs, upd[c].ip)
                    THEN [@ EXCEPT !.pc = "put",
                                   !.currentIPs = currentIPs,
                                   !.item = updateIpAllowlist(newIPs, now)]
                  ELSE [@ EXCEPT !.pc = "done",
                                 !.currentIPs = currentIPs]]
  /\ UNCHANGED <<table, now, cfn, ev, sinkFaulty, lastPut, admin, waf>>

\* The PutCommand is answered: the item replaces the stored one, or the
\* error is thrown on and nothing is stored
CallPutAnswered(c, ok) ==
  /\ upd[c].pc = "put"
  /\ table' = IF ok THEN upd[c].item ELSE table
  /\ lastPut' = IF ok THEN upd[c].item ELSE lastPut
  /\ upd' = [upd EXCEPT ![c] = IF ok THEN [@ EXCEPT !.pc = "done",
                                                     !.wrote = TRUE]
                               ELSE [@ EXCEPT !.pc = "threw"]]
  /\ UNCHANGED <<now, cfn, ev, sinkFaulty, admin, waf>>

-----------------------------------------------------------------------------
(* Web ACL *)

NoWebAcl ==
  [deployed |-> FALSE, props |-> [has |-> FALSE, allowedIPs |-> <<>>],
   defaultAction |-> "none", rules |-> <<>>]

\* props?.allowedIPs && props.allowedIPs.length > 0
HasAllowedIPs(props) == props.has /\ Len(props.allowedIPs) > 0

\* wafRules: the allow rule on the IP set when addresses are configured,
\* then the rate limit and the managed rule group
wafRules(props) ==
  (IF HasAllowedIPs(props)
     THEN <<[name |-> "AllowedIPsRule", priority |-> 0, action |-> "allow",
             addresses |-> props.allowedIPs]>>
     ELSE <<>>)
  \o <<[name |-> "RateLimitRule", priority |-> 1, action |-> "block",
        addresses |-> <<>>],
       [name |-> "AWSManagedRulesCommonRuleSet", priority |-> 2,
        action |-> "none", addresses |-> <<>>]>>

\* webAcl.defaultAction blocking whatever is configured
defaultActionBlock(props) == "block"

\* webAcl.defaultAction
defaultAction(props) == IF HasAllowedIPs(props) THEN "block" ELSE "allow"

\* What the Web ACL does with a request: the first rule that matches
\* decides, the default action otherwise. The allow rule matches an address
\* of its IP set, the rate limit a client over the limit, the managed
\* group a request it recognises as an attack.
RECURSIVE WafDecisionFrom(_, _, _, _, _)
WafDecisionFrom(acl, i, ip, overLimit, attack) ==
  IF i > Len(acl.rules) THEN acl.defaultAction
  ELSE LET rule == acl.rules[i]
       IN IF rule.name = "AllowedIPsRule" /\ Includes(rule.addresses, ip)
            THEN "allow"
          ELSE IF rule.name = "RateLimitRule" /\ overLimit THEN "block"
          ELSE IF rule.name = "AWSManagedRulesCommonRuleSet" /\ attack
            THEN "block"
          ELSE WafDecisionFrom(acl, i + 1, ip, overLimit, attack)

WafDecision(acl, ip, overLimit, attack) ==
  WafDecisionFrom(acl, 1, ip, overLimit, attack)

\* cdk deploy with the context allowedIPs: the AuthStack constructor builds
\* the Web ACL from it
Deploy(props) ==
  /\ waf' = [deployed |-> TRUE, props |-> props,
             defaultAction |-> defaultAction(props),
             rules |-> wafRules(props)]
  /\ UNCHANGED <<table, now, cfn, ev, sinkFaulty, lastPut, admin, upd>>

-----------------------------------------------------------------------------
(* Specification *)

Init ==
  /\ table = NoItem
  /\ now = 0
  /\ cfn = NoCfn
  /\ ev = Idle
  /\ sinkFaulty = FALSE
  /\ lastPut = NoItem
  /\ admin = NoAdmin
  /\ upd = NoCalls
  /\ waf = NoWebAcl

Next ==
  \/ \E requestType \in {"Create", "Update", "Delete"},
        props \in Properties, putOk \in BOOLEAN :
       CustomResource(requestType, props, putOk, "req-1")
  \/ Tick
  \/ \E reqIp \in Addrs \cup {""} : PlaceholderAuth(reqIp)
  \/ \E reqIp \in Addrs \cup {""}, body \in Bodies, header \in Headers,
        sink \in SinkOutcomes :
       AuthBegin(reqIp, body, header, sink)
  \/ \E ok \in BOOLEAN, sink \in SinkOutcomes : AuthStoreResponse(ok, sink)
  \/ \E providerResp \in ProviderResponses, sink \in SinkOutcomes :
       AuthCognitoResponse(providerResp, sink)
  \/ LambdaTimeout

Spec == Init /\ [][Next]_vars

\* The same handlers with an audit sink that may throw
InitSinkFaults ==
  /\ table = NoItem
  /\ now = 0
  /\ cfn = NoCfn
  /\ ev = Idle
  /\ sinkFaulty = TRUE
  /\ lastPut = NoItem
  /\ admin = NoAdmin
  /\ upd = NoCalls
  /\ waf = NoWebAcl

SpecSinkFaults == InitSinkFaults /\ [][Next]_vars

\* The manager Lambda alone: provisioning events with lists of any strings
\* and requests to the management endpoints. It shares only the table with
\* the authentication Lambda, which never writes it.
ManagerNext ==
  \/ \E requestType \in {"Create", "Update", "Delete"},
        props \in AnyProperties, putOk \in BOOLEAN :
       CustomResource(requestType, props, putOk, "req-1")
  \/ Tick
  \/ \E method \in {"GET", "POST"}, reqIp \in Addrs, credOk \in BOOLEAN,
        list \in AnyLists, putOk \in BOOLEAN :
       AdminRequest(method, reqIp, credOk, list, putOk)

ManagerSpec == Init /\ [][ManagerNext]_vars

\* The custom-resource handler under provisioning events alone, with the
\* ids of the events told apart
ProvisionNext ==
  \/ \E requestType \in {"Create", "Update", "Delete"},
        props \in Properties, putOk \in BOOLEAN,
        requestId \in RequestIds :
       CustomResource(requestType, props, putOk, requestId)
  \/ Tick

ProvisionSpec == Init /\ [][ProvisionNext]_vars

\* Deployments: the Web ACL built from the context, and the provisioning
\* events a deployment delivers
DeployNext ==
  \/ \E props \in AnyProperties : Deploy(props)
  \/ \E requestType \in {"Create", "Update", "Delete"},
        props \in AnyProperties, putOk \in BOOLEAN :
       CustomResource(requestType, props, putOk, "req-1")
  \/ Tick

DeploySpec == Init /\ [][DeployNext]_vars

\* What the store may hold when a runtime update starts: a provisioned
\* list, or one an earlier update made one entry longer
StoredLists == UNION {[1..n -> Addrs] : n \in 0..(MaxIPs + 1)}

\* Runtime updates: two callers of _addIpToAllowlist and
\* _removeIpFromAllowlist on a store that provisioning has filled or not
InitRuntime ==
  /\ table \in {NoItem} \cup {updateIpAllowlist(l, 0) : l \in StoredLists}
  /\ lastPut = table
  /\ now = 0
  /\ cfn = NoCfn
  /\ ev = Idle
  /\ sinkFaulty = FALSE
  /\ admin = NoAdmin
  /\ upd = NoCalls
  /\ waf = NoWebAcl

RuntimeNext ==
  \/ \E c \in Callers, op \in {"add", "remove"}, ipAddress \in Addrs :
       CallBegin(c, op, ipAddress)
  \/ \E c \in Callers, ok \in BOOLEAN : CallGetAnswered(c, ok)
  \/ \E c \in Callers, ok \in BOOLEAN : CallPutAnswered(c, ok)
  \/ Tick

RuntimeSpec == InitRuntime /\ [][RuntimeNext]_vars

-----------------------------------------------------------------------------
(* Properties of the dual-validation handler *)

Dual == ev.handler = "dual"
DualDone == Dual /\ ev.pc = "done"
StoreWasRead == Includes(ev.trace, "storeRead")
VerifierCalled == Includes(ev.trace, "verify")

\* C1: the dual-validation handler answers authorized:true if and only if,
\* in that evaluation, the source IP was in the allowlist the store read
\* returned and the identity provider accepted the token.
DualGateInvariant ==
  Dual => (ev.response.authorized
             <=> (StoreWasRead /\ ev.seen.listed
                    /\ VerifierCalled /\ ev.providerResp = "accept"))

\* An evaluation that passed both gates and was authorized
DualGateWitness ==
  /\ DualDone
  /\ ev.seen.listed /\ ev.providerResp = "accept"
  /\ ev.response.authorized /\ ev.response.statusCode = 200

\* The one audit line of a finished evaluation
TheAudit == ev.audits[1]

\* The reason code of section 4.3 that an audit line stands for
AuditReasonCode(a) ==
  IF a.authMethod = "system" THEN "system-error"
  ELSE IF a.reason = <<"IP address not in allowlist">> THEN "origin-not-allowed"
  ELSE IF a.reason = <<"No access token provided">> THEN "credential-missing"
  ELSE IF a.reason = <<"Invalid access token">> THEN "credential-invalid"
  ELSE "none"

\* The reason code of section 4.3 that a response stands for
ResponseReasonCode(r) ==
  IF r.reason = "Internal server error" THEN "system-error"
  ELSE IF r.reason = "Access denied" THEN "origin-not-allowed"
  ELSE IF r.reason = "Authentication required" THEN "credential-missing"
  ELSE IF r.reason = "Invalid credentials" THEN "credential-invalid"
  ELSE "none"

\* The origin-not-allowed outcome: the decision and its audit line
OriginNotAllowedOutcome ==
  /\ ~ev.response.authorized
  /\ ResponseReasonCode(ev.response) = "origin-not-allowed"
  /\ Len(ev.audits) = 1
  /\ AuditReasonCode(TheAudit) = "origin-not-allowed"

\* C2: every authentication handler, the placeholder included, answers
\* authorized:true only after the origin was checked against the allowlist
\* and the credential was verified.
EveryHandlerChecksBothGates ==
  ev.response.authorized =>
    /\ StoreWasRead /\ ev.seen.listed
    /\ VerifierCalled /\ ev.providerResp = "accept"

\* C3: when no allowlist item was ever written, or the list the evaluation
\* read is empty, the evaluation ends in the origin-not-allowed denial,
\* whatever the rest of the request. (Items are never deleted, so an absent
\* item was never written.)
EmptyAllowlistDeniesOrigin ==
  (DualDone /\ (~table.present \/ (StoreWasRead /\ ev.seen.empty)))
    => OriginNotAllowedOutcome

\* Whether the origin of the evaluation was outside the stored allowlist:
\* by the list its store read returned, or, when it read none, by the list
\* stored when the request arrived.
OriginNotListed ==
  IF StoreWasRead THEN ~ev.seen.error /\ ~ev.seen.listed
  ELSE ~ev.listedOnArrival

\* C4: a request whose origin is not in the stored allowlist ends in the
\* origin-not-allowed denial, whatever its credential and its body (an
\* unparseable body included).
OriginDenialNeverMasked ==
  (DualDone /\ OriginNotListed) => OriginNotAllowedOutcome

\* C5: the identity provider is called only after the store read has
\* completed, and never in an evaluation whose origin was not listed.
OriginCheckPrecedesVerifier ==
  Dual =>
    /\ \A i \in 1..Len(ev.trace) :
         ev.trace[i] = "verify" => \E j \in 1..(i - 1) : ev.trace[j] = "storeRead"
    /\ VerifierCalled => ev.seen.listed
    /\ ev.providerResp # "none" => VerifierCalled

\* An origin outside the allowlist presenting a token: denied after the
\* store read alone
UnlistedOriginWithTokenWitness ==
  /\ DualDone
  /\ ev.accessToken # Absent
  /\ StoreWasRead /\ ~ev.seen.error /\ ~ev.seen.listed
  /\ ev.trace = <<"storeRead", "audit", "return">>

NoAuditFieldCarriesToken ==
  Dual =>
    \A i \in 1..Len(ev.audits), tok \in Tokens :
      /\ ~Carries(ev.audits[i].reason, tok)
      /\ ev.audits[i].ipAddress # tok
      /\ ev.audits[i].userId # tok
      /\ ev.audits[i].username # tok
      /\ ev.audits[i].authMethod # tok
      /\ ev.audits[i].result # tok

\* C8: an evaluation whose identity-provider call failed (token rejected,
\* malformed, provider unavailable) is never authorized.
ProviderFailureDenies ==
  (Dual /\ ev.providerResp \in {"NotAuthorized", "InvalidParameter", "Unavailable"})
    => (~ev.response.authorized /\ ev.response.statusCode # 200
          /\ ev.response.userId = Absent)

\* A listed origin whose token check met a provider outage, and was denied
ProviderOutageWitness ==
  /\ DualDone
  /\ ev.seen.listed
  /\ ev.providerResp = "Unavailable"
  /\ ~ev.response.authorized

\* The reason code section 4.3 gives each verification failure
ExpectedReasonCode(providerResp) ==
  CASE providerResp = "NotAuthorized" -> "credential-invalid"
    [] providerResp = "InvalidParameter" -> "credential-malformed"
    [] providerResp = "Unavailable" -> "system-error"

\* C9: Invalid, Malformed and ProviderUnavailable are reported with the
\* three reason codes credential-invalid, credential-malformed and
\* system-error, in the decision and in the audit record.
VerifierFailuresDistinguished ==
  (DualDone /\ ev.providerResp \in {"NotAuthorized", "InvalidParameter", "Unavailable"})
    => /\ ResponseReasonCode(ev.response) = ExpectedReasonCode(ev.providerResp)
       /\ Len(ev.audits) = 1
       /\ AuditReasonCode(TheAudit) = ExpectedReasonCode(ev.providerResp)

\* C10: an evaluation whose allowlist read failed denies, logs an audit
\* record, and reports system-error, not origin-not-allowed.
StoreFailureIsSystemError ==
  (DualDone /\ StoreWasRead /\ ev.seen.error)
    => /\ ~ev.response.authorized
       /\ Len(ev.audits) = 1
       /\ AuditReasonCode(TheAudit) = "system-error"
       /\ ResponseReasonCode(ev.response) = "system-error"

\* C11: an evaluation whose identity-provider call is never answered still
\* ends with a decision and one audit record: authorized:false with reason
\* system-error.
UnansweredProviderStillDecides ==
  (Dual /\ ev.pc = "timedOut" /\ VerifierCalled)
    => /\ ev.response # NoResponse
       /\ ~ev.response.authorized
       /\ ResponseReasonCode(ev.response) = "system-error"
       /\ Len(ev.audits) = 1
       /\ AuditReasonCode(TheAudit) = "system-error"

\* The response of the decision the checks of the evaluation reached
DecidedResponse ==
  ResponseOf(ev.decided, IF ev.decided = "success" THEN CognitoUser ELSE NoUser)

\* C12: an evaluation whose audit write threw still returns the decision
\* its checks reached, unchanged.
AuditFailureKeepsDecision ==
  (Dual /\ ev.pc \in {"done", "threw"} /\ Includes(ev.trace, "auditFailed"))
    => (ev.pc = "done" /\ ev.response = DecidedResponse)

\* The step in which a GetCommand of the evaluation is answered with an item
StoreReadStep ==
  /\ ev.pc = "awaitStore"
  /\ Includes(ev'.trace, "storeRead")
  /\ ~ev'.seen.error

MalformedReplaceRejected ==
  table.present =>
    \A i \in 1..Len(table.allowedIPs) : table.allowedIPs[i] # Malformed

\* Whether the last management request was answered with the stored list
AdminListReturned ==
  admin.statusCode = 200 /\ admin.body = table.allowedIPs

AdminPostReplacesGetReturns ==
  (admin.invoked /\ admin.originListed) =>
    /\ admin.method = "POST" => admin.replaced
    /\ admin.method = "GET" => AdminListReturned

\* C17: an evaluation of a request with an empty or absent origin address
\* never reads the allowlist store and ends denied with reason
\* origin-missing.
EmptyOriginRejectedUnread ==
  (Dual /\ ev.reqIp = "") =>
    /\ ~StoreWasRead
    /\ ev.pc = "done" =>
         (~ev.response.authorized
            /\ ResponseReasonCode(ev.response) = "origin-missing")

\* Whether the request of the evaluation supplied no credential: no
\* accessToken in its body and no token in its Authorization header
NoCredentialSupplied ==
  /\ ParseBody(ev.body).ok
  /\ ~ParseBody(ev.body).isNull
  /\ ParseBody(ev.body).accessToken = Absent
  /\ HeaderToken(ev.header) = Absent

\* C18: an evaluation whose origin passed the allowlist check and whose
\* request supplied no credential ends authorized:false with reason
\* credential-missing, and the identity provider is not called.
MissingCredentialDenied ==
  (Dual /\ StoreWasRead /\ ev.seen.listed /\ NoCredentialSupplied) =>
    /\ ~VerifierCalled
    /\ ev.pc = "done"
    /\ ~ev.response.authorized
    /\ ResponseReasonCode(ev.response) = "credential-missing"

\* A listed origin sending the header 'Bearer ' with no token after it
EmptyTokenWitness ==
  /\ DualDone /\ ev.seen.listed
  /\ ev.body = BodyNone /\ ev.header = <<Bearer>>
  /\ ev.response.statusCode = 401
  /\ ResponseReasonCode(ev.response) = "credential-missing"

\* The status that goes with each reason code, system-error given as a
\* parameter; 200 exactly for authorized:true
StatusFollowsReason(systemErrorStatus) ==
  DualDone =>
    LET code == ResponseReasonCode(ev.response)
        status == ev.response.statusCode
    IN /\ code = "origin-not-allowed" => status = 403
       /\ code \in {"credential-missing", "credential-invalid",
                    "credential-malformed"} => status = 401
       /\ code = "system-error" => status = systemErrorStatus
       /\ status = 200 <=> ev.response.authorized

\* C19 as stated: origin-not-allowed is answered 403 (forbidden), the
\* credential reasons 401 (unauthorized), system-error 503 (service
\* unavailable), and 200 exactly when authorized is true.
StatusSystemErrorUnavailable == StatusFollowsReason(503)

\* C19: origin-not-allowed is answered 403 (forbidden), the credential
\* reasons 401 (unauthorized), system-error 500 (internal server error),
\* and 200 exactly when authorized is true.
StatusSystemErrorInternal == StatusFollowsReason(500)

\* A request whose body is the literal null, answered 500
SystemErrorStatusWitness ==
  /\ DualDone /\ ev.body = BodyNull
  /\ ResponseReasonCode(ev.response) = "system-error"
  /\ ev.response.statusCode = 500

\* C20: the audit record of an evaluation agrees with its decision: its
\* result is success exactly when authorized is true; a success record has
\* method dual-validation and the verified user's id and name; a failure
\* record has a non-empty reason.
AuditAgreesWithDecision ==
  DualDone =>
    /\ Len(ev.audits) = 1
    /\ TheAudit.result \in {"success", "failure"}
    /\ TheAudit.result = "success" <=> ev.response.authorized
    /\ TheAudit.result = "success" =>
         /\ TheAudit.authMethod = "dual-validation"
         /\ TheAudit.userId = CognitoUser.userId
         /\ TheAudit.username = CognitoUser.username
         /\ TheAudit.userId = ev.response.userId
         /\ TheAudit.username = ev.response.username
    /\ TheAudit.result = "failure" => TheAudit.reason # <<>>

\* An authorized evaluation with its success record
SuccessAuditWitness ==
  /\ DualDone /\ ev.response.authorized
  /\ Len(ev.audits) = 1
  /\ TheAudit.result = "success"
  /\ TheAudit.authMethod = "dual-validation"
  /\ TheAudit.userId = CognitoUser.userId

\* C21: the provisioning path writes the allowlist at most once: once an
\* item is stored, no later provisioning event (a stack Update) changes it,
\* so none overwrites what the store holds by then.
ProvisioningWritesOnce ==
  [][table.present => table' = table]_vars

\* How often a call appears in the trace of the evaluation
Count(call) ==
  Cardinality({i \in 1..Len(ev.trace) : ev.trace[i] = call})

WebAclFollowsConfig ==
  waf.deployed =>
    LET allowRules == {i \in 1..Len(waf.rules) :
                         waf.rules[i].name = "AllowedIPsRule"}
    IN IF ~waf.props.has \/ waf.props.allowedIPs = <<>>
         THEN /\ allowRules = {}
              /\ waf.defaultAction = "allow"
              /\ \A ip \in Addrs \cup {Malformed} :
                   WafDecision(waf, ip, FALSE, FALSE) = "allow"
         ELSE /\ waf.defaultAction = "block"
              /\ Cardinality(allowRules) = 1
              /\ \A i \in allowRules :
                   /\ waf.rules[i].action = "allow"
                   /\ waf.rules[i].addresses = waf.props.allowedIPs

\* A deployment without allowedIPs after the store was given a list: the
\* edge admits an address the store does not list
OpenEdgeWitness ==
  /\ waf.deployed /\ ~waf.props.has
  /\ waf.defaultAction = "allow"
  /\ table.present /\ ~Includes(table.allowedIPs, "ip2")
  /\ WafDecision(waf, "ip2", FALSE, FALSE) = "allow"

\* Whether a list shows the change of a call: the address is in it after
\* an add, not in it after a remove
ReflectsIn(list, op, ipAddress) ==
  IF op = "add" THEN Includes(list, ipAddress) ELSE ~Includes(list, ipAddress)

\* C24: when two updates for different addresses run concurrently and both
\* complete, the stored list reflects both: the write that completes an
\* update keeps the change of the other caller's completed update.
ConcurrentUpdatesBothKept ==
  [][\A c \in Callers, d \in Callers :
       (/\ c # d
        /\ upd[c].pc = "put" /\ upd'[c].pc = "done"
        /\ upd[d].pc = "done" /\ upd[d].wrote
        /\ upd[d].ip # upd[c].ip
        /\ ReflectsIn(table.allowedIPs, upd[d].op, upd[d].ip))
       => ReflectsIn(table'.allowedIPs, upd[d].op, upd[d].ip)]_vars

\* The step in which a call of op returns
Completes(c, op) ==
  /\ upd[c].op = op
  /\ upd[c].pc \in {"get", "put"}
  /\ upd'[c].pc = "done"

Occurrences(list, x) == Cardinality({i \in 1..Len(list) : list[i] = x})

\* C28: when _addIpToAllowlist(ip) returns, ip is in the stored list and
\* the entries the call read are all kept, in their order; if ip was among
\* them no write was issued and the item is unchanged; otherwise ip was
\* appended once. Adding never makes a second entry of ip.
AddKeepsAndAddsOnce ==
  [][\A c \in Callers :
       Completes(c, "add") =>
         LET currentIPs == upd'[c].currentIPs
             ip == upd[c].ip
         IN /\ table'.present /\ Includes(table'.allowedIPs, ip)
            /\ Len(table'.allowedIPs) >= Len(currentIPs)
            /\ SubSeq(table'.allowedIPs, 1, Len(currentIPs)) = currentIPs
            /\ Includes(currentIPs, ip) =>
                 (table' = table /\ ~upd'[c].wrote)
            /\ ~Includes(currentIPs, ip) =>
                 (Len(table'.allowedIPs) = Len(currentIPs) + 1
                    /\ Occurrences(table'.allowedIPs, ip) = 1)]_vars

\* An add that appended its address to a list of other entries
AddedWitness ==
  \E c \in Callers :
    /\ upd[c].op = "add" /\ upd[c].pc = "done" /\ upd[c].wrote
    /\ upd[c].currentIPs # <<>>
    /\ table.allowedIPs = Append(upd[c].currentIPs, upd[c].ip)

\* C29: when _removeIpFromAllowlist(ip) returns, ip is not in the stored
\* list (no occurrence is left), the other entries the call read are kept
\* in their order, and if ip was not among them no write was issued and
\* the item is unchanged.
RemoveDropsEveryOccurrence ==
  [][\A c \in Callers :
       Completes(c, "remove") =>
         LET currentIPs == upd'[c].currentIPs
             ip == upd[c].ip
             stored == getIpAllowlist(table')
         IN /\ ~Includes(stored, ip)
            /\ stored = SelectSeq(currentIPs, LAMBDA x : x # ip)
            /\ ~Includes(currentIPs, ip) =>
                 (table' = table /\ ~upd'[c].wrote)]_vars

\* A remove that dropped two entries of its address and kept another
RemovedTwoWitness ==
  \E c \in Callers :
    /\ upd[c].op = "remove" /\ upd[c].pc = "done" /\ upd[c].wrote
    /\ table.allowedIPs # <<>>
    /\ Len(upd[c].currentIPs) = Len(table.allowedIPs) + 2

OriginDecidedOnceAtRead ==
  /\ [][ev.pc = "awaitCognito" =>
          /\ ev'.seen = ev.seen
          /\ ev'.ipValid = ev.ipValid
          /\ Cardinality({i \in 1..Len(ev'.trace) :
                            ev'.trace[i] = "storeRead"}) = 1
          /\ (ev'.pc = "done" /\ ev'.providerResp = "accept")
               => ev'.response.authorized]_vars
  /\ []((Dual /\ ev.response.authorized) => (StoreWasRead /\ ev.seen.listed))

\* An evaluation authorized for an address the store no longer lists
AuthorizedAfterRemovalWitness ==
  /\ DualDone /\ ev.response.authorized /\ ev.seen.listed
  /\ table.present /\ ~Includes(table.allowedIPs, ev.sourceIp)

\* C27: a Delete event writes nothing (item and updatedAt stay) and is
\* answered SUCCESS; a Create or Update event whose Put is accepted replaces
\* the stored list with exactly the allowedIPs of the event, the empty list
\* when the property is absent; and the stored item changes in no other
\* step.
OnlyCreateAndUpdateWrite ==
  /\ [][\A props \in Properties, putOk \in BOOLEAN,
          requestId \in RequestIds :
          CustomResource("Delete", props, putOk, requestId)
            => (table' = table /\ lastPut' = lastPut
                  /\ cfn'.Status = "SUCCESS")]_vars
  /\ [][\A requestType \in {"Create", "Update"}, props \in Properties,
          requestId \in RequestIds :
          CustomResource(requestType, props, TRUE, requestId)
            => /\ table'.present
               /\ table'.allowedIPs =
                    (IF props.has THEN props.allowedIPs ELSE <<>>)
               /\ table'.updatedAt = now]_vars
  /\ [][table' # table =>
          \E requestType \in {"Create", "Update"}, props \in Properties,
             requestId \in RequestIds :
             CustomResource(requestType, props, TRUE, requestId)]_vars

\* A stored list that outlived a later event answered SUCCESS with a
\* different count: a Delete
DeleteKeptItemWitness ==
  /\ table.present /\ table.allowedIPs # <<>>
  /\ table.updatedAt < now
  /\ cfn.Status = "SUCCESS"
  /\ cfn.AllowedIPCount # Len(table.allowedIPs)

\* C30: the custom-resource handler always answers: a Put that fails is
\* answered FAILED with the error's message as Reason and nothing stored;
\* SUCCESS is answered only when the event needed no write or its write
\* completed; every response has the PhysicalResourceId IpAllowlistConfig
\* and the StackId, RequestId and LogicalResourceId of its event.
HandlerAlwaysAnswers ==
  /\ [](cfn.Status # "none" =>
          /\ cfn.Status \in {"SUCCESS", "FAILED"}
          /\ cfn.PhysicalResourceId = "IpAllowlistConfig"
          /\ cfn.Status = "FAILED" <=> cfn.Reason # Absent)
  /\ [][\A requestType \in {"Create", "Update", "Delete"},
          props \in Properties, putOk \in BOOLEAN,
          requestId \in RequestIds :
          CustomResource(requestType, props, putOk, requestId)
            => /\ cfn'.StackId = EventIds(requestId).StackId
               /\ cfn'.RequestId = requestId
               /\ cfn'.LogicalResourceId
                    = EventIds(requestId).LogicalResourceId
               /\ cfn'.Status = "SUCCESS"
                    <=> (requestType = "Delete" \/ putOk)
               /\ cfn'.Status = "FAILED"
                    => (cfn'.Reason = PutError.message /\ table' = table)
               /\ (cfn'.Status = "SUCCESS" /\ requestType # "Delete")
                    => (table' = lastPut'
                          /\ table'.allowedIPs = PropsAllowedIPs(props))]_vars

\* An Update whose Put failed: answered FAILED, the earlier list kept
FailedPutWitness ==
  /\ cfn.Status = "FAILED" /\ cfn.Reason = "put failed"
  /\ cfn.RequestId = "req-2"
  /\ table.present /\ table.allowedIPs # <<>>

====
